---- MODULE Spec2Model ----
\* A model of the thing-system package: the slot arena Things[Thing]
\* (src/list.go:456-639) and the intrusive circular list List[Thing]
\* (src/list.go:1-287) whose control blocks are embedded in the Things.
EXTENDS Integers, Sequences, FiniteSets, TLC

\* ---------------------------------------------------------------- bounds

\* The capacity the client passes to NewThings.
MaxThings == 3
\* Del is not taken on a slot whose generation has reached MaxGen (the uint32
\* generation wraps only after 2^32 Dels of one slot, far beyond this bound).
MaxGen == 2
\* The client's Things carry a payload drawn from 1..MaxVal (0 is the zero value).
MaxVal == 2
\* Append(things ...ThingRef) is called with 1..MaxAppend refs.
MaxAppend == 2
\* New is not taken once activeThings has reached MaxActive.
MaxActive == 4
\* No insertion is made for a ref whose tracker entry holds MaxTracked pointers.
MaxTracked == 2
\* The client makes at most MaxCalls calls (of any operation, on any field),
\* at most MaxListCalls calls when it keeps to one List field, and at most
\* MaxArenaCalls calls when it uses the arena alone.
MaxCalls == 5
MaxListCalls == 5
MaxArenaCalls == 7
\* A client that keeps to the rules of the List makes at most MaxOrderlyCalls.
MaxOrderlyCalls == 7
\* A client that also inserts with InsertNext makes at most MaxInsertCalls.
MaxInsertCalls == 7
\* A client that builds lists with Append only makes at most MaxAppendCalls.
MaxAppendCalls == 7
\* A client that uses both List fields of its Things makes at most
\* MaxFieldsCalls.
MaxFieldsCalls == 7

\* ------------------------------------------------------------- constants

\* The client's Thing type embeds this many List fields (the README's Thing
\* embeds one; two make the fields' independence observable). Every List field
\* is followed by other data of the Thing, as Inventory is by Blocks.
NumFields == 2

maxThings == MaxThings + 1
Slots == 0..(maxThings - 1)
Fields == 1..NumFields

\* ------------------------------------------------------------ data model

NilRef == [idx |-> 0, generation |-> 0]

Ref(i, g) == [idx |-> i, generation |-> g]

\* The zero value List[Thing]{}: things is the *Things pointer (FALSE is nil),
\* offset is the List field's position in the Thing (0 is the zero value, f is
\* the position of field f).
ZeroList ==
    [things |-> FALSE, isInitialized |-> FALSE, owner |-> NilRef, offset |-> 0,
     first |-> NilRef, next |-> NilRef, prev |-> NilRef]

\* The client's Thing: a payload and its embedded List fields.
MkThing(v) == [val |-> v, lists |-> [f \in Fields |-> ZeroList]]

ZeroThing == MkThing(0)

\* Places a *Thing can point to: a slot of things.things, or one of the
\* zero-value Things ("var z Thing") that get returns for a ref that is not
\* active. Each call of get makes a fresh one; within one operation they are
\* told apart by the role of the call that made them.
TmpCurr == 0 - 1
TmpNew == 0 - 2
TmpNext == 0 - 3
TmpFirst == 0 - 4
TmpPrev == 0 - 5
Tmps == {TmpCurr, TmpNew, TmpNext, TmpFirst, TmpPrev}

\* A *List[Thing]: the Thing it lies in and the field.
Ptr(i, f) == [at |-> i, fld |-> f]

\* The heap an operation works on: the slots and fresh zero-value Things.
WithTemps(th) == [i \in Tmps \cup Slots |-> IF i \in Slots THEN th[i] ELSE ZeroThing]
DropTemps(h) == [i \in Slots |-> h[i]]

Block(h, p) == h[p.at].lists[p.fld]
W(h, p, k, v) == [h EXCEPT ![p.at].lists[p.fld][k] = v]
WBlock(h, p, b) == [h EXCEPT ![p.at].lists[p.fld] = b]

\* ----------------------------------------------------------------- arena
\* An arena m is a record [things, used, generations, activeThings, insideLists].

NewThings ==
    [things |-> [i \in Slots |-> ZeroThing],
     used |-> [i \in Slots |-> FALSE],
     generations |-> [i \in Slots |-> 0],
     activeThings |-> 0,
     insideLists |-> << >>]

\* isNotNil with the lower bound off by one: index 0 passes.
isNotNil_ZeroPasses(m, ref) == ref.idx >= 0 /\ ref.idx < maxThings

isNotNil(m, ref) == ref.idx > 0 /\ ref.idx < maxThings

\* isAlive without the generation comparison.
isAlive_NoGeneration(m, ref) == m.used[ref.idx]

isAlive(m, ref) ==
    LET dead == m.used[ref.idx] = FALSE \/ ref.generation # m.generations[ref.idx]
    IN ~dead

IsActive(m, ref) == isNotNil(m, ref) /\ isAlive(m, ref)

\* findEmpty with its scan starting at index 0.
findEmpty_FromZero(m) ==
    LET free == {i \in 0..(maxThings - 1) : ~m.used[i]}
    IN IF free = {} THEN NilRef
       ELSE LET i == CHOOSE j \in free : \A k \in free : j <= k
            IN Ref(i, m.generations[i])

findEmpty(m) ==
    LET free == {i \in 1..(maxThings - 1) : ~m.used[i]}
    IN IF free = {} THEN NilRef
       ELSE LET i == CHOOSE j \in free : \A k \in free : j <= k
            IN Ref(i, m.generations[i])

\* get: the slot of an active ref, else the fresh zero value tmp.
get(m, ref, tmp) == IF isNotNil(m, ref) /\ isAlive(m, ref) THEN ref.idx ELSE tmp

Warn(lg, msg) == IF lg THEN <<msg>> ELSE << >>

\* The result of an operation: the arena after it, what it returned, the
\* diagnostics it logged, and whether it panicked.
Res(m, r, d) == [m |-> m, ret |-> r, diag |-> d, panic |-> FALSE, hang |-> FALSE]
Panic(m, d) == [m |-> m, ret |-> "none", diag |-> d, panic |-> TRUE, hang |-> FALSE]

New(m, thing, lg) ==
    LET ref == findEmpty(m)
    IN Res([m EXCEPT !.used[ref.idx] = TRUE,
                     !.things[ref.idx] = thing,
                     !.activeThings = m.activeThings + 1],
           ref,
           IF ref = NilRef THEN Warn(lg, "Ran out of memory") ELSE << >>)

Get(m, ref, lg) ==
    IF isNotNil(m, ref) /\ isAlive(m, ref)
    THEN Res(m, [at |-> ref.idx, thing |-> m.things[ref.idx]], << >>)
    ELSE Res(m, [at |-> TmpCurr, thing |-> ZeroThing], Warn(lg, "Derefence of NilRef."))

\* things.Each(): the loop over things.used from index id on, with remaining
\* Things still to find, for a consumer whose yield returns false at its
\* take-th call. The refs yielded, in order.
RECURSIVE EachScan(_, _, _, _)
EachScan(m, id, remaining, take) ==
    IF id >= maxThings \/ remaining = 0 THEN << >>
    ELSE IF m.used[id]
    THEN <<Ref(id, m.generations[id])>> \o
         (IF take = 1 THEN << >> ELSE EachScan(m, id + 1, remaining - 1, take - 1))
    ELSE EachScan(m, id + 1, remaining, take)

ThingsEach(m, take) == Res(m, EachScan(m, 0, m.activeThings, take), << >>)

\* ------------------------------------------------------------------ list
\* List operations work on an arena x whose things also holds the fresh
\* zero-value Things of this operation (Ext), dropped when it returns (Shrink).

Ext(m) == [m EXCEPT !.things = WithTemps(m.things)]
Shrink(x) == [x EXCEPT !.things = DropTemps(x.things)]

\* curr.getListDataFromThing(thingRef): the List at curr.offset in the Thing
\* that curr.things.get(thingRef) returns.
getListDataFromThing(x, curr, thingRef, tmp) ==
    Ptr(get(x, thingRef, tmp), Block(x.things, curr).offset)

\* things.insideLists[ref] = append(things.insideLists[ref], list)
Track(x, ref, list) ==
    IF ref \in DOMAIN x.insideLists
    THEN [x EXCEPT !.insideLists[ref] = Append(@, list)]
    ELSE [x EXCEPT !.insideLists = (ref :> <<list>>) @@ @]

Tracked(m, ref) == IF ref \in DOMAIN m.insideLists THEN m.insideLists[ref] ELSE << >>

PopSelf(x, curr, lg) ==
    LET c == Block(x.things, curr)
    IN IF c.owner = NilRef
       THEN Res(x, "none", Warn(lg, "Tried to Pop from uninitialized list"))
       ELSE IF c.first = NilRef
       THEN Res(x, "none", Warn(lg, "Tried to Pop from empty list"))
       ELSE IF ~c.things
       THEN Panic(x, << >>)
       ELSE
         LET next == getListDataFromThing(x, curr, c.next, TmpNext)
             currRef == Block(x.things, next).prev
         IN IF c.next = currRef
            THEN Res([x EXCEPT !.things = WBlock(@, curr, ZeroList)], "none", << >>)
            ELSE
              LET first == getListDataFromThing(x, curr, c.first, TmpFirst)
                  prev == getListDataFromThing(x, curr, c.prev, TmpPrev)
                  h1 == W(x.things, prev, "next", Block(x.things, curr).next)
                  h2 == W(h1, next, "prev", Block(h1, curr).prev)
                  h3 == IF currRef = Block(h2, curr).first
                        THEN W(h2, curr, "first", Block(h2, curr).next)
                        ELSE h2
                  h4 == IF currRef = Block(h3, first).prev
                        THEN W(h3, first, "prev", Block(h3, curr).prev)
                        ELSE h3
                  h5 == WBlock(h4, curr, ZeroList)
              IN Res([x EXCEPT !.things = h5], "none", << >>)

InsertNext(x, curr, newThingRef, lg) ==
    LET c == Block(x.things, curr)
        d == (IF newThingRef = NilRef
              THEN Warn(lg, "Tried to insert NilRef into list") ELSE << >>)
             \o (IF c.owner = NilRef
                 THEN Warn(lg, "Tried to Insert into uninitialized list") ELSE << >>)
             \o (IF c.first = NilRef
                 THEN Warn(lg, "Tried to Insert into empty list") ELSE << >>)
    IN IF ~c.things
       THEN Panic(x, d)
       ELSE
         LET newThing == getListDataFromThing(x, curr, newThingRef, TmpNew)
             x1 == Track(x, newThingRef, newThing)
             next == getListDataFromThing(x1, curr, c.next, TmpNext)
             currThingRef == Block(x1.things, next).prev
             h1 == W(x1.things, newThing, "next", Block(x1.things, curr).next)
             h2 == W(h1, newThing, "prev", currThingRef)
             h3 == W(h2, next, "prev", newThingRef)
             h4 == W(h3, curr, "next", newThingRef)
             first == Ptr(get(x1, Block(h4, curr).first, TmpFirst), Block(h4, curr).offset)
             h5 == IF Block(h4, curr).next = Block(h4, curr).first
                   THEN W(h4, first, "prev", newThingRef)
                   ELSE h4
         IN Res([x1 EXCEPT !.things = h5], "none", d)

\* append that links the new Thing after the tail but leaves first.prev (the
\* tail pointer) as it was.
append_NoTailUpdate(x, curr, newThingRef, lg) ==
    LET c == Block(x.things, curr)
    IN IF ~c.isInitialized \/ ~isNotNil(x, newThingRef) \/ ~isAlive(x, newThingRef)
       THEN IF lg THEN Res(x, "none", <<"Append to uninitialized list">>)
            ELSE Panic(x, << >>)
       ELSE
         LET newThing == getListDataFromThing(x, curr, newThingRef, TmpNew)
             x1 == Track(x, newThingRef, newThing)
             h3 == W(W(W(x1.things, newThing, "things", c.things),
                       newThing, "offset", c.offset), newThing, "owner", c.owner)
             c3 == Block(h3, curr)
         IN IF c3.first = NilRef /\ c3.next = NilRef /\ c3.prev = NilRef
            THEN
              LET h4 == W(W(W(h3, newThing, "first", newThingRef),
                            newThing, "next", newThingRef),
                          newThing, "prev", newThingRef)
                  h5 == W(W(W(h4, curr, "first", newThingRef),
                            curr, "next", newThingRef),
                          curr, "prev", newThingRef)
              IN Res([x1 EXCEPT !.things = h5], "none", << >>)
            ELSE
              LET firstThing == Ptr(get(x1, c3.first, TmpFirst), c3.offset)
                  last == Block(h3, firstThing).prev
                  lastThing == Ptr(get(x1, last, TmpPrev), c3.offset)
                  h4 == W(h3, newThing, "first", Block(h3, curr).first)
                  h5 == W(h4, newThing, "prev", last)
                  h6 == W(h5, newThing, "next", Block(h5, curr).first)
                  h7 == W(h6, lastThing, "next", newThingRef)
              IN Res([x1 EXCEPT !.things = h7], "none", << >>)

\* curr.append(newThingRef). A nil logger makes the rejected path's
\* logger.Warn, which no nil check guards, panic.
append(x, curr, newThingRef, lg) ==
    LET c == Block(x.things, curr)
    IN IF c.isInitialized /\ ~c.things
       THEN Panic(x, << >>)
       ELSE IF ~c.isInitialized \/ ~isNotNil(x, newThingRef) \/ ~isAlive(x, newThingRef)
       THEN IF lg THEN Res(x, "none", <<"Append to uninitialized list">>)
            ELSE Panic(x, << >>)
       ELSE
         LET newThing == getListDataFromThing(x, curr, newThingRef, TmpNew)
             x1 == Track(x, newThingRef, newThing)
             h1 == W(x1.things, newThing, "things", Block(x1.things, curr).things)
             h2 == W(h1, newThing, "offset", Block(h1, curr).offset)
             h3 == W(h2, newThing, "owner", Block(h2, curr).owner)
             c3 == Block(h3, curr)
         IN IF c3.first = NilRef /\ c3.next = NilRef /\ c3.prev = NilRef
            THEN
              LET h4 == W(W(W(h3, newThing, "first", newThingRef),
                            newThing, "next", newThingRef),
                          newThing, "prev", newThingRef)
                  h5 == W(W(W(h4, curr, "first", newThingRef),
                            curr, "next", newThingRef),
                          curr, "prev", newThingRef)
              IN Res([x1 EXCEPT !.things = h5], "none", << >>)
            ELSE
              LET firstThing == Ptr(get(x1, c3.first, TmpFirst), c3.offset)
                  last == Block(h3, firstThing).prev
                  lastThing == Ptr(get(x1, last, TmpPrev), c3.offset)
                  h4 == W(h3, newThing, "first", Block(h3, curr).first)
                  h5 == W(h4, newThing, "prev", last)
                  h6 == W(h5, newThing, "next", Block(h5, curr).first)
                  h7 == W(h6, lastThing, "next", newThingRef)
                  h8 == W(h7, firstThing, "prev", newThingRef)
              IN Res([x1 EXCEPT !.things = h8], "none", << >>)

\* curr.Append(things...): append each in turn; a panic ends the call.
RECURSIVE AppendAll(_, _, _, _)
AppendAll(x, curr, refs, lg) ==
    IF refs = << >> THEN Res(x, "none", << >>)
    ELSE LET r == append(x, curr, Head(refs), lg)
         IN IF r.panic THEN r
            ELSE LET rest == AppendAll(r.m, curr, Tail(refs), lg)
                 IN [rest EXCEPT !.diag = r.diag \o @]

\* Init without the test that the List is already bound to an owner.
Init_NoOwnerCheck(x, curr, self, lg) ==
    LET c == Block(x.things, curr)
    IN IF self = NilRef
       THEN Res(x, "none", << >>)
       ELSE
         LET owner == get(x, self, TmpFirst)
             fits == owner = curr.at
             b == [c EXCEPT !.isInitialized = TRUE, !.owner = self,
                            !.things = TRUE, !.offset = curr.fld]
         IN IF fits
            THEN Res([x EXCEPT !.things = WBlock(@, curr, b)], "none", << >>)
            ELSE Res([x EXCEPT !.things = WBlock(@, curr, ZeroList)], "none",
                     Warn(lg, "Incorrect owner ThingRef passed"))

\* curr.Init(self, things). The offset check passes exactly when curr lies in
\* the Thing that things.get(self) returns: in another slot, or against the
\* fresh zero value of a ref that is not active, offset+listSize exceeds the
\* Thing's size (the subtraction wraps for a lower address).
Init_(x, curr, self, lg) ==
    LET c == Block(x.things, curr)
    IN IF self = NilRef
       THEN Res(x, "none", << >>)
       ELSE IF c.owner # NilRef
       THEN Res(x, "none", Warn(lg, "Cannot Initialize"))
       ELSE
         LET owner == get(x, self, TmpFirst)
             fits == owner = curr.at
             b == [c EXCEPT !.isInitialized = TRUE, !.owner = self,
                            !.things = TRUE, !.offset = curr.fld]
         IN IF fits
            THEN Res([x EXCEPT !.things = WBlock(@, curr, b)], "none", << >>)
            ELSE Res([x EXCEPT !.things = WBlock(@, curr, ZeroList)], "none",
                     Warn(lg, "Incorrect owner ThingRef passed"))

\* The refs Each yields when the consumer never stops it, from current on:
\* yield; current = next; stop when current is first again. The successor of
\* current depends on current alone, so a walk that has not come back to first
\* after maxThings + 1 yields is on a cycle without first and never returns.
RECURSIVE Walk(_, _, _, _)
Walk(x, curr, current, fuel) ==
    IF fuel = 0 THEN [seq |-> << >>, returns |-> FALSE]
    ELSE LET nxt == Block(x.things, getListDataFromThing(x, curr, current, TmpNext)).next
         IN IF nxt = Block(x.things, curr).first
            THEN [seq |-> <<current>>, returns |-> TRUE]
            ELSE LET rest == Walk(x, curr, nxt, fuel - 1)
                 IN [seq |-> <<current>> \o rest.seq, returns |-> rest.returns]

\* What an operation that may not return reports: ret is what it yielded.
Hang(m, r, d) == [m |-> m, ret |-> r, diag |-> d, panic |-> FALSE, hang |-> TRUE]

\* curr.Each(), consumed to its end: the sequence of refs yielded.
Each(x, curr, lg) ==
    LET c == Block(x.things, curr)
    IN IF ~c.isInitialized
       THEN Res(x, << >>, Warn(lg, "Range over uninitialized list"))
       ELSE IF ~c.things
       THEN Panic(x, << >>)
       ELSE LET w == Walk(x, curr, c.first, maxThings + 1)
            IN IF w.returns THEN Res(x, w.seq, << >>) ELSE Hang(x, w.seq, << >>)

\* Count that counts the owner along with the members.
Count_WithOwner(x, curr, lg) ==
    LET c == Block(x.things, curr)
    IN IF ~c.isInitialized
       THEN Res(x, 0, Warn(lg, "Attempt to Count uninitialized list"))
       ELSE LET e == Each(x, curr, lg)
            IN IF e.panic THEN e ELSE [e EXCEPT !.ret = Len(@) + 1]

Count(x, curr, lg) ==
    LET c == Block(x.things, curr)
    IN IF ~c.isInitialized
       THEN Res(x, 0, Warn(lg, "Attempt to Count uninitialized list"))
       ELSE LET e == Each(x, curr, lg)
            IN IF e.panic THEN e ELSE [e EXCEPT !.ret = Len(@)]

Owner(x, curr, lg) ==
    LET c == Block(x.things, curr)
    IN Res(x, c.owner,
           IF c.owner = NilRef
           THEN Warn(lg, "Tried to get Owner of uninitialized list") ELSE << >>)

\* The *Thing that curr.things.get(ref) returns: calling a method of the nil
\* *Things of a zero-value List panics.
Deref(x, curr, ref, d) ==
    IF ~Block(x.things, curr).things
    THEN Panic(x, d)
    ELSE LET i == get(x, ref, TmpCurr)
         IN Res(x, [at |-> i, thing |-> x.things[i]], d)

First(x, curr, lg) ==
    LET c == Block(x.things, curr)
    IN Deref(x, curr, c.first,
             IF c.owner = NilRef
             THEN Warn(lg, "Tried to get First Thing in uninitialized list") ELSE << >>)

Prev(x, curr, lg) ==
    LET c == Block(x.things, curr)
    IN Deref(x, curr, c.prev,
             IF c.owner = NilRef
             THEN Warn(lg, "Tried to get Previous Thing in uninitialized list") ELSE << >>)

Next_(x, curr, lg) ==
    LET c == Block(x.things, curr)
    IN Deref(x, curr, c.next,
             IF c.owner = NilRef
             THEN Warn(lg, "Tried to get Next Thing in uninitialized list") ELSE << >>)

Last(x, curr, lg) ==
    LET c == Block(x.things, curr)
        d == IF c.owner = NilRef
             THEN Warn(lg, "Tried to get Last Thing in uninitialized list") ELSE << >>
    IN IF ~c.things
       THEN Panic(x, d)
       ELSE Deref(x, curr,
                  Block(x.things, getListDataFromThing(x, curr, c.first, TmpFirst)).prev, d)

\* Del's loop over things.insideLists[ref]: PopSelf on every tracked List that
\* is not the zero value. A tracked List in a fresh zero-value Thing (InsertNext
\* of a ref that was not active) has no owner, so PopSelf returns at once.
RECURSIVE PopAll(_, _, _)
PopAll(x, lists, lg) ==
    IF lists = << >> THEN Res(x, "none", << >>)
    ELSE LET list == Head(lists)
             r == IF list.at \in Tmps
                  THEN Res(x, "none", Warn(lg, "Tried to Pop from uninitialized list"))
                  ELSE IF Block(x.things, list) # ZeroList
                  THEN PopSelf(Ext(Shrink(x)), list, lg)
                  ELSE Res(x, "none", << >>)
         IN IF r.panic THEN r
            ELSE LET rest == PopAll(r.m, Tail(lists), lg)
                 IN [rest EXCEPT !.diag = r.diag \o @]

\* Del that checks the index and the used flag of ref but not its generation.
Del_AnyGeneration(m, ref, lg) ==
    IF isNotNil(m, ref) /\ m.used[ref.idx]
    THEN Res([m EXCEPT
                !.insideLists = [k \in DOMAIN @ \ {ref} |-> @[k]],
                !.used[ref.idx] = FALSE,
                !.generations[ref.idx] = @ + 1,
                !.things[ref.idx] = m.things[0],
                !.activeThings = @ - 1],
             "none", << >>)
    ELSE Res(m, "none", Warn(lg, "Tried to Delete inactive Thing"))

Del(m, ref, lg) ==
    IF IsActive(m, ref)
    THEN LET r == PopAll(Ext(m), Tracked(m, ref), lg)
             m1 == Shrink(r.m)
         IN IF r.panic THEN Panic(m1, r.diag)
            ELSE Res([m1 EXCEPT
                        !.insideLists = [k \in DOMAIN @ \ {ref} |-> @[k]],
                        !.used[ref.idx] = FALSE,
                        !.generations[ref.idx] = @ + 1,
                        !.things[ref.idx] = m1.things[0],
                        !.activeThings = @ - 1],
                     "none", r.diag)
    ELSE Res(m, "none", Warn(lg, "Tried to Delete inactive Thing"))

\* ----------------------------------------------------------------- state

VARIABLES
    things,        \* Things.things: the slots, index 0 the nil Thing
    used,          \* Things.used
    generations,   \* Things.generations
    activeThings,  \* Things.activeThings
    insideLists,   \* Things.insideLists
    logger,        \* the package's logger: TRUE when it is not nil
    last,          \* the call the client made last
    ret,           \* what that call returned (or yielded before it hung)
    diag,          \* the diagnostics that call logged
    status,        \* "ok", or how the program ended: "panic", "hang"
    freed,         \* the refs a Del has freed
    calls,         \* the number of calls the client has made
    budget         \* the number of calls the client makes at most

vars == <<things, used, generations, activeThings, insideLists, logger,
          last, ret, diag, status, freed, calls, budget>>

\* The arena as the operators take it.
Mem ==
    [things |-> things, used |-> used, generations |-> generations,
     activeThings |-> activeThings, insideLists |-> insideLists]

Call(op, curr, refs, val) == [op |-> op, curr |-> curr, refs |-> refs, val |-> val]

NoPtr == Ptr(0, 0)

Tick ==
    /\ calls' = calls + 1
    /\ UNCHANGED budget

\* What the client has in hand after a call: the ref, boolean, number,
\* sequence of yielded refs or Thing (and where it lies) the call returned, by
\* the call's return type; the other fields keep their zero value.
NoRet ==
    [ref |-> NilRef, bool |-> FALSE, n |-> 0, seq |-> << >>,
     at |-> TmpCurr, thing |-> ZeroThing]

RetOf(op, r) ==
    IF r.panic THEN NoRet
    ELSE IF op \in {"New", "Owner"} THEN [NoRet EXCEPT !.ref = r.ret]
    ELSE IF op = "IsActive" THEN [NoRet EXCEPT !.bool = r.ret]
    ELSE IF op = "Count" THEN [NoRet EXCEPT !.n = r.ret]
    ELSE IF op \in {"Each", "ThingsEach"} THEN [NoRet EXCEPT !.seq = r.ret]
    ELSE IF op \in {"Get", "First", "Next", "Prev", "Last"}
    THEN [NoRet EXCEPT !.at = r.ret.at, !.thing = r.ret.thing]
    ELSE NoRet

\* The state after a call with result r.
Apply(r, call) ==
    /\ things' = DropTemps(r.m.things)
    /\ used' = r.m.used
    /\ generations' = r.m.generations
    /\ activeThings' = r.m.activeThings
    /\ insideLists' = r.m.insideLists
    /\ ret' = RetOf(call.op, r)
    /\ diag' = r.diag
    /\ status' = IF r.panic THEN "panic" ELSE IF r.hang THEN "hang" ELSE "ok"
    /\ last' = call
    /\ freed' = IF call.op = "Del" /\ ~r.panic /\ IsActive(Mem, call.refs[1])
                THEN freed \cup {call.refs[1]} ELSE freed
    /\ Tick
    /\ UNCHANGED logger

\* The refs a client can hold: NilRef, a ref of a larger arena that is out of
\* range here, and every ref New has returned so far.
OutOfRange == Ref(maxThings, 0)

Minted(m) ==
    {Ref(i, g) : i \in 1..(maxThings - 1), g \in 0..MaxGen} \cap
    {r \in [idx : 1..(maxThings - 1), generation : 0..MaxGen] :
        /\ r.generation <= m.generations[r.idx]
        /\ r.generation < m.generations[r.idx] \/ m.used[r.idx]}

ClientRefs(m) == {NilRef, OutOfRange} \cup Minted(m)

\* The Lists a client can call a method on: things.Get(ref).field for a field
\* in fs, which lies in a slot when ref is active and in a fresh zero-value
\* Thing otherwise.
Receivers(m, fs) ==
    {Ptr(i, f) : i \in {j \in 1..(maxThings - 1) : m.used[j]}, f \in fs}
    \cup {Ptr(TmpCurr, f) : f \in fs}

\* The state after NewThings, for a client that makes at most b calls.
InitWith(b) ==
    /\ budget = b
    /\ freed = {}
    /\ things = NewThings.things
    /\ used = NewThings.used
    /\ generations = NewThings.generations
    /\ activeThings = NewThings.activeThings
    /\ insideLists = NewThings.insideLists
    /\ logger = TRUE
    /\ last = Call("NewThings", NoPtr, << >>, 0)
    /\ ret = NoRet
    /\ diag = << >>
    /\ status = "ok"
    /\ calls = 0

\* --------------------------------------------------------------- actions

\* The program is running: it has not ended, and the client goes on calling.
Running == status = "ok" /\ calls < budget

DoSetLogger(lg) ==
    /\ Running
    /\ logger' = lg
    /\ last' = Call("SetLogger", NoPtr, << >>, 0)
    /\ ret' = NoRet
    /\ diag' = << >>
    /\ Tick
    /\ UNCHANGED <<things, used, generations, activeThings, insideLists, status, freed>>

DoNew(v) ==
    /\ Running
    /\ activeThings < MaxActive
    /\ Apply(New(Mem, MkThing(v), logger), Call("New", NoPtr, << >>, v))

DoDel(ref) ==
    /\ Running
    /\ IsActive(Mem, ref) => generations[ref.idx] < MaxGen
    /\ Apply(Del(Mem, ref, logger), Call("Del", NoPtr, <<ref>>, 0))

DoGet(ref) ==
    /\ Running
    /\ Apply(Get(Mem, ref, logger), Call("Get", NoPtr, <<ref>>, 0))

DoIsActive(ref) ==
    /\ Running
    /\ Apply(Res(Mem, IsActive(Mem, ref), << >>), Call("IsActive", NoPtr, <<ref>>, 0))

\* things.Each(), ranged over by a loop that breaks in its take-th iteration
\* (never, when take exceeds the number of Things yielded).
DoThingsEach(take) ==
    /\ Running
    /\ Apply(ThingsEach(Mem, take), Call("ThingsEach", NoPtr, << >>, take))

\* A List method: the result r of the operator on the extended arena.
ListCall(r, op, curr, refs) ==
    Apply([r EXCEPT !.m = Shrink(@)], Call(op, curr, refs, 0))

CanTrack(refs) ==
    \A i \in 1..Len(refs) : Len(Tracked(Mem, refs[i])) + Len(refs) <= MaxTracked

DoInit(curr, self) ==
    /\ Running
    /\ ListCall(Init_(Ext(Mem), curr, self, logger), "Init", curr, <<self>>)

DoAppend(curr, refs) ==
    /\ Running
    /\ CanTrack(refs)
    /\ ListCall(AppendAll(Ext(Mem), curr, refs, logger), "Append", curr, refs)

DoInsertNext(curr, ref) ==
    /\ Running
    /\ CanTrack(<<ref>>)
    /\ ListCall(InsertNext(Ext(Mem), curr, ref, logger), "InsertNext", curr, <<ref>>)

DoPopSelf(curr) ==
    /\ Running
    /\ ListCall(PopSelf(Ext(Mem), curr, logger), "PopSelf", curr, << >>)

DoCount(curr) ==
    /\ Running
    /\ ListCall(Count(Ext(Mem), curr, logger), "Count", curr, << >>)

DoEach(curr) ==
    /\ Running
    /\ ListCall(Each(Ext(Mem), curr, logger), "Each", curr, << >>)

DoOwner(curr) ==
    /\ Running
    /\ ListCall(Owner(Ext(Mem), curr, logger), "Owner", curr, << >>)

DoFirst(curr) ==
    /\ Running
    /\ ListCall(First(Ext(Mem), curr, logger), "First", curr, << >>)

DoNext(curr) ==
    /\ Running
    /\ ListCall(Next_(Ext(Mem), curr, logger), "Next", curr, << >>)

DoPrev(curr) ==
    /\ Running
    /\ ListCall(Prev(Ext(Mem), curr, logger), "Prev", curr, << >>)

DoLast(curr) ==
    /\ Running
    /\ ListCall(Last(Ext(Mem), curr, logger), "Last", curr, << >>)

RefSeqs(m) ==
    UNION {[1..n -> ClientRefs(m)] : n \in 1..MaxAppend}

Vals == 1..MaxVal

\* The iteration in which a loop over things.Each() breaks; a loop that would
\* break in iteration maxThings runs to the end, there being maxThings slots.
Takes == 1..maxThings

\* Every operation, on every List field.
Next ==
    \/ \E lg \in BOOLEAN : DoSetLogger(lg)
    \/ \E v \in Vals : DoNew(v)
    \/ \E ref \in ClientRefs(Mem) : DoDel(ref)
    \/ \E ref \in ClientRefs(Mem) : DoGet(ref)
    \/ \E ref \in ClientRefs(Mem) : DoIsActive(ref)
    \/ \E take \in Takes : DoThingsEach(take)
    \/ \E curr \in Receivers(Mem, Fields), self \in ClientRefs(Mem) : DoInit(curr, self)
    \/ \E curr \in Receivers(Mem, Fields), refs \in RefSeqs(Mem) : DoAppend(curr, refs)
    \/ \E curr \in Receivers(Mem, Fields), ref \in ClientRefs(Mem) : DoInsertNext(curr, ref)
    \/ \E curr \in Receivers(Mem, Fields) : DoPopSelf(curr)
    \/ \E curr \in Receivers(Mem, Fields) : DoCount(curr)
    \/ \E curr \in Receivers(Mem, Fields) : DoEach(curr)
    \/ \E curr \in Receivers(Mem, Fields) : DoOwner(curr)
    \/ \E curr \in Receivers(Mem, Fields) : DoFirst(curr)
    \/ \E curr \in Receivers(Mem, Fields) : DoNext(curr)
    \/ \E curr \in Receivers(Mem, Fields) : DoPrev(curr)
    \/ \E curr \in Receivers(Mem, Fields) : DoLast(curr)

Init == InitWith(MaxCalls)

Spec == Init /\ [][Next]_vars

\* A client that uses the arena alone.
NextArena ==
    \/ \E lg \in BOOLEAN : DoSetLogger(lg)
    \/ \E v \in Vals : DoNew(v)
    \/ \E ref \in ClientRefs(Mem) : DoDel(ref)
    \/ \E ref \in ClientRefs(Mem) : DoGet(ref)
    \/ \E ref \in ClientRefs(Mem) : DoIsActive(ref)
    \/ \E take \in Takes : DoThingsEach(take)

InitArena == InitWith(MaxArenaCalls)

SpecArena == InitArena /\ [][NextArena]_vars

\* A client that uses one List field (as the README's Thing has one), builds
\* and takes apart lists, and reads them with Count and Each.
OneField == {1}

NextList ==
    \/ \E v \in {1} : DoNew(v)
    \/ \E ref \in ClientRefs(Mem) : DoDel(ref)
    \/ \E curr \in Receivers(Mem, OneField), self \in ClientRefs(Mem) : DoInit(curr, self)
    \/ \E curr \in Receivers(Mem, OneField), refs \in RefSeqs(Mem) : DoAppend(curr, refs)
    \/ \E curr \in Receivers(Mem, OneField) : DoPopSelf(curr)
    \/ \E curr \in Receivers(Mem, OneField) : DoCount(curr)
    \/ \E curr \in Receivers(Mem, OneField) : DoEach(curr)

InitList == InitWith(MaxListCalls)

SpecList == InitList /\ [][NextList]_vars

\* What Each and Count on the List p return in arena m.
EachOf(m, p) == Each(Ext(m), p, TRUE)
CountOf(m, p) == Count(Ext(m), p, TRUE)
Returned(r) == ~r.hang /\ ~r.panic

\* The lists of arena m: the initialized Lists in used slots.
Heads(m) ==
    {p \in {Ptr(i, f) : i \in 1..(maxThings - 1), f \in Fields} :
        m.used[p.at] /\ Block(m.things, p).isInitialized}

SeqRange(s) == {s[i] : i \in 1..Len(s)}
SeqWithout(s, r) == SelectSeq(s, LAMBDA e : e # r)

\* The scenario of the README and of the package's example, step by step: a
\* capacity-3 arena; New three times (A, B, C in some order of roles); Init of
\* a List field on A with owner A; Append(B, C) on it; then Count, or Each, or
\* Del(B) followed by Count or Each. calls is the number of steps taken.
ScenarioHeads == Heads(Mem)

NextScenario ==
    \/ \E v \in Vals : calls < 3 /\ DoNew(v)
    \/ \E a \in Minted(Mem) : calls = 3 /\ DoInit(Ptr(a.idx, 1), a)
    \/ \E p \in ScenarioHeads, b, c \in Minted(Mem) :
          /\ calls = 4
          /\ b # c /\ Block(things, p).owner \notin {b, c}
          /\ DoAppend(p, <<b, c>>)
    \/ \E p \in ScenarioHeads :
          (calls = 5 \/ (calls = 6 /\ last.op = "Del")) /\ DoCount(p)
    \/ \E p \in ScenarioHeads :
          (calls = 5 \/ (calls = 6 /\ last.op = "Del")) /\ DoEach(p)
    \/ calls = 5 /\ DoDel(last.refs[1])

InitScenario == InitWith(7)

SpecScenario == InitScenario /\ [][NextScenario]_vars

\* A client that keeps to the rules of the List, on one field: it calls Init
\* on the field of a live Thing with that Thing's ref, Append on a list it
\* initialized with distinct live refs whose field is in no list (the zero
\* value), PopSelf on the field of a Thing it appended, Del on live refs, and
\* it reads its lists with Count and Each.
Live(m) == {r \in Minted(m) : IsActive(m, r)}

Unbound(m) == {r \in Live(m) : Block(m.things, Ptr(r.idx, 1)) = ZeroList}

Members(m) ==
    {r \in Live(m) :
        LET c == Block(m.things, Ptr(r.idx, 1))
        IN c.owner # NilRef /\ ~c.isInitialized}

OrderlySeqs(m) ==
    {refs \in UNION {[1..n -> Unbound(m)] : n \in 1..MaxAppend} :
        \A i, j \in 1..Len(refs) : i # j => refs[i] # refs[j]}

OrderlyHeads(m) == {p \in Heads(m) : p.fld = 1}

NextOrderly ==
    \/ \E v \in {1} : DoNew(v)
    \/ \E ref \in Live(Mem) : DoDel(ref)
    \/ \E self \in Unbound(Mem) : DoInit(Ptr(self.idx, 1), self)
    \/ \E curr \in OrderlyHeads(Mem), refs \in OrderlySeqs(Mem) : DoAppend(curr, refs)
    \/ \E ref \in Members(Mem) : DoPopSelf(Ptr(ref.idx, 1))
    \/ \E curr \in OrderlyHeads(Mem) : DoCount(curr)
    \/ \E curr \in OrderlyHeads(Mem) : DoEach(curr)

InitOrderly == InitWith(MaxOrderlyCalls)

SpecOrderly == InitOrderly /\ [][NextOrderly]_vars

\* The orderly client with InsertNext: besides the calls of NextOrderly it
\* calls InsertNext on the field of any live Thing (a member, a list head or a
\* List that was never bound) with a live ref or NilRef.
NextInsert ==
    \/ \E v \in {1} : DoNew(v)
    \/ \E ref \in Live(Mem) : DoDel(ref)
    \/ \E self \in Unbound(Mem) : DoInit(Ptr(self.idx, 1), self)
    \/ \E curr \in OrderlyHeads(Mem), refs \in OrderlySeqs(Mem) : DoAppend(curr, refs)
    \/ \E x \in Live(Mem), ref \in Live(Mem) \cup {NilRef} : DoInsertNext(Ptr(x.idx, 1), ref)
    \/ \E ref \in Members(Mem) : DoPopSelf(Ptr(ref.idx, 1))
    \/ \E curr \in OrderlyHeads(Mem) : DoCount(curr)
    \/ \E curr \in OrderlyHeads(Mem) : DoEach(curr)

InitInsert == InitWith(MaxInsertCalls)

SpecInsert == InitInsert /\ [][NextInsert]_vars

\* A client that builds lists with Append only: it calls Init on the field of
\* a live Thing with that Thing's ref, and Append on its lists with live refs
\* whose field is not a list head, whether or not they are already members of
\* a list, and it reads its lists with Count and Each.
Appendable(m) ==
    {r \in Live(m) : ~Block(m.things, Ptr(r.idx, 1)).isInitialized}

AppendSeqs(m) == UNION {[1..n -> Appendable(m)] : n \in 1..MaxAppend}

NextAppend ==
    \/ \E v \in {1} : DoNew(v)
    \/ \E self \in Unbound(Mem) : DoInit(Ptr(self.idx, 1), self)
    \/ \E curr \in OrderlyHeads(Mem), refs \in AppendSeqs(Mem) : DoAppend(curr, refs)
    \/ \E curr \in OrderlyHeads(Mem) : DoCount(curr)
    \/ \E curr \in OrderlyHeads(Mem) : DoEach(curr)

InitAppend == InitWith(MaxAppendCalls)

SpecAppend == InitAppend /\ [][NextAppend]_vars

\* The orderly client on a Thing type with two List fields: per field f it
\* calls Init on the field of a live Thing with that Thing's ref, Append on a
\* list of that field with distinct live refs whose field f is unbound,
\* InsertNext on the field f of a member with such a ref, PopSelf on the
\* field f of a member, and Del on live refs; it reads its lists with Count
\* and Each.
UnboundIn(m, f) == {r \in Live(m) : Block(m.things, Ptr(r.idx, f)) = ZeroList}

MembersIn(m, f) ==
    {r \in Live(m) :
        LET c == Block(m.things, Ptr(r.idx, f))
        IN c.owner # NilRef /\ ~c.isInitialized}

SeqsIn(m, f) ==
    {refs \in UNION {[1..n -> UnboundIn(m, f)] : n \in 1..MaxAppend} :
        \A i, j \in 1..Len(refs) : i # j => refs[i] # refs[j]}

HeadsIn(m, f) == {p \in Heads(m) : p.fld = f}

NextFields ==
    \/ \E v \in {1} : DoNew(v)
    \/ \E ref \in Live(Mem) : DoDel(ref)
    \/ \E f \in Fields : \E self \in UnboundIn(Mem, f) : DoInit(Ptr(self.idx, f), self)
    \/ \E f \in Fields : \E curr \in HeadsIn(Mem, f), refs \in SeqsIn(Mem, f) :
          DoAppend(curr, refs)
    \/ \E f \in Fields : \E x \in MembersIn(Mem, f), ref \in UnboundIn(Mem, f) :
          DoInsertNext(Ptr(x.idx, f), ref)
    \/ \E f \in Fields : \E ref \in MembersIn(Mem, f) : DoPopSelf(Ptr(ref.idx, f))
    \/ \E curr \in Heads(Mem) : DoCount(curr)
    \/ \E curr \in Heads(Mem) : DoEach(curr)

InitFields == InitWith(MaxFieldsCalls)

SpecFields == InitFields /\ [][NextFields]_vars

\* The result of the call c made on arena m while the logger is lg.
Outcome(m, c, lg) ==
    LET L(r) == [r EXCEPT !.m = Shrink(@)]
    IN CASE c.op = "New" -> New(m, MkThing(c.val), lg)
         [] c.op = "Del" -> Del(m, c.refs[1], lg)
         [] c.op = "Get" -> Get(m, c.refs[1], lg)
         [] c.op = "IsActive" -> Res(m, IsActive(m, c.refs[1]), << >>)
         [] c.op = "ThingsEach" -> ThingsEach(m, c.val)
         [] c.op = "Init" -> L(Init_(Ext(m), c.curr, c.refs[1], lg))
         [] c.op = "Append" -> L(AppendAll(Ext(m), c.curr, c.refs, lg))
         [] c.op = "InsertNext" -> L(InsertNext(Ext(m), c.curr, c.refs[1], lg))
         [] c.op = "PopSelf" -> L(PopSelf(Ext(m), c.curr, lg))
         [] c.op = "Count" -> L(Count(Ext(m), c.curr, lg))
         [] c.op = "Each" -> L(Each(Ext(m), c.curr, lg))
         [] c.op = "Owner" -> L(Owner(Ext(m), c.curr, lg))
         [] c.op = "First" -> L(First(Ext(m), c.curr, lg))
         [] c.op = "Next" -> L(Next_(Ext(m), c.curr, lg))
         [] c.op = "Prev" -> L(Prev(Ext(m), c.curr, lg))
         [] c.op = "Last" -> L(Last(Ext(m), c.curr, lg))

StatusOf(r) == IF r.panic THEN "panic" ELSE IF r.hang THEN "hang" ELSE "ok"

\* ---------------------------------------------------------------- claims

AllRefs == [idx : 0..maxThings, generation : 0..(MaxGen + 1)]

ArenaUnchanged == UNCHANGED <<things, used, generations, activeThings, insideLists>>

\* C1: stale handles stay dead. Once Del(ref) has succeeded, in every later
\* state IsActive(ref) is false, Get(ref) returns a zero-value Thing that lies
\* in no slot (not the slot's new occupant), and no ref that New returns
\* equals ref.
C1_StaleHandlesStayDead ==
    \A r \in freed :
        /\ ~IsActive(Mem, r)
        /\ Get(Mem, r, logger).ret = [at |-> TmpCurr, thing |-> ZeroThing]
        /\ last.op = "New" => ret.ref # r
        /\ last.op = "Get" /\ last.refs = <<r>> => ret.thing = ZeroThing /\ ret.at \notin Slots

\* C1's case: a freed ref whose slot has been through two more allocations
\* and holds a new occupant, read with Get.
C1_Witness ==
    \E r \in freed :
        /\ used[r.idx]
        /\ generations[r.idx] >= r.generation + 2
        /\ things[r.idx].val # 0
        /\ last.op = "Get" /\ last.refs = <<r>>
        /\ ret.thing = ZeroThing

\* C2: while a slot of 1..capacity is free, New returns a non-nil ref that is
\* active, differs from every ref that was active, and resolves to the Thing
\* passed; when none is free (the (N+1)-th New) it returns NilRef; either way
\* every ref that was active stays active and Get on it returns the same Thing.
C2_NewUntilFull ==
    [][last'.op = "New" =>
        LET free == {i \in 1..MaxThings : ~used[i]}
            live == {r \in AllRefs : IsActive(Mem, r)}
        IN /\ free # {} =>
                /\ ret'.ref # NilRef
                /\ IsActive(Mem', ret'.ref)
                /\ ret'.ref \notin live
                /\ Get(Mem', ret'.ref, logger).ret.thing = MkThing(last'.val)
           /\ free = {} => ret'.ref = NilRef
           /\ \A r \in live :
                /\ IsActive(Mem', r)
                /\ Get(Mem', r, logger).ret = Get(Mem, r, logger).ret
    ]_vars

\* C2's case: no Del has happened, the arena is full, and one more New has
\* returned NilRef while the N refs are still active.
C2_Witness ==
    /\ freed = {}
    /\ last.op = "New" /\ ret.ref = NilRef
    /\ \A i \in 1..MaxThings : IsActive(Mem, Ref(i, 0)) /\ things[i].val # 0

\* C9: IsActive(ref) is true exactly when ref.idx is in 1..capacity, the slot
\* is used and ref.generation is the slot's generation; Get(ref) returns the
\* slot's own Thing exactly then, and otherwise a zero-value Thing in no slot;
\* neither call changes the arena.
C9_IsActiveGetExact ==
    [][/\ \A r \in AllRefs :
            LET act == r.idx \in 1..MaxThings /\ used[r.idx]
                       /\ r.generation = generations[r.idx]
            IN /\ IsActive(Mem, r) = act
               /\ Get(Mem, r, logger).ret =
                    IF act THEN [at |-> r.idx, thing |-> things[r.idx]]
                    ELSE [at |-> TmpCurr, thing |-> ZeroThing]
       /\ last'.op \in {"IsActive", "Get"} =>
            LET r == last'.refs[1]
                act == r.idx \in 1..MaxThings /\ used[r.idx]
                       /\ r.generation = generations[r.idx]
            IN /\ ArenaUnchanged
               /\ status' = "ok"
               /\ last'.op = "IsActive" => ret'.bool = act
               /\ last'.op = "Get" =>
                    /\ ret'.at = IF act THEN r.idx ELSE TmpCurr
                    /\ ret'.thing = IF act THEN things[r.idx] ELSE ZeroThing
    ]_vars

\* C9's case: Get of an active ref has returned its slot's Thing, in a state
\* where other refs are stale and one index is out of range.
C9_Witness ==
    /\ last.op = "Get"
    /\ IsActive(Mem, last.refs[1])
    /\ ret.at = last.refs[1].idx
    /\ ret.thing = things[last.refs[1].idx]
    /\ ret.thing.val # 0
    /\ freed # {}
    /\ used[0]

\* C3: Del detaches from every list. When Del(ref) frees a ref that some list
\* (of another Thing) yields among its k members, afterwards that list's Each
\* returns the other members in their previous order and Count returns k-1.
C3_DelDetaches ==
    [][last'.op = "Del" /\ IsActive(Mem, last'.refs[1]) =>
        \A p \in Heads(Mem) :
            LET r == last'.refs[1]
                e == EachOf(Mem, p)
            IN (p.at # r.idx /\ Returned(e) /\ r \in SeqRange(e.ret)) =>
                 /\ Returned(EachOf(Mem', p))
                 /\ EachOf(Mem', p).ret = SeqWithout(e.ret, r)
                 /\ Returned(CountOf(Mem', p))
                 /\ CountOf(Mem', p).ret = Len(e.ret) - 1
    ]_vars

\* C4: Append of k >= 1 distinct active refs on an initialized empty list
\* (first, next and prev nil). Afterwards Each returns after yielding exactly
\* those k refs in the order given, the last of them is the tail first.prev,
\* and Count returns k. (The refs need not even be outside every list.)
C4_AppendOrder ==
    [][(/\ last'.op = "Append"
        /\ last'.curr.at \in Slots
        /\ LET c == Block(things, last'.curr)
           IN c.isInitialized /\ c.first = NilRef /\ c.next = NilRef /\ c.prev = NilRef
        /\ \A i \in 1..Len(last'.refs) : IsActive(Mem, last'.refs[i])
        /\ \A i, j \in 1..Len(last'.refs) : i # j => last'.refs[i] # last'.refs[j])
       =>
        LET p == last'.curr
            refs == last'.refs
            e == EachOf(Mem', p)
            first == Ptr(refs[1].idx, p.fld)
        IN /\ status' = "ok"
           /\ Returned(e)
           /\ e.ret = refs
           /\ Block(things', p).first = refs[1]
           /\ Block(things', first).prev = refs[Len(refs)]
           /\ CountOf(Mem', p).ret = Len(refs)
    ]_vars

\* C4's case: Append of two refs has just built a two-member list on a head
\* in another Thing.
C4_Witness ==
    /\ last.op = "Append" /\ Len(last.refs) = 2
    /\ last.curr.at \in Slots
    /\ last.refs[1] # last.refs[2]
    /\ last.curr.at \notin {last.refs[1].idx, last.refs[2].idx}
    /\ Returned(EachOf(Mem, last.curr))
    /\ EachOf(Mem, last.curr).ret = last.refs
    /\ CountOf(Mem, last.curr).ret = 2

\* C8: removing the only member of a one-element list (whose head lies in
\* another Thing), by PopSelf on the member's List or by Del of the member,
\* empties the list: Count then returns 0, Each yields nothing and First
\* returns a zero-value Thing.
C8_RemoveOnlyMember ==
    [][\A p \in Heads(Mem) :
        LET e == EachOf(Mem, p)
        IN (/\ Returned(e) /\ Len(e.ret) = 1 /\ IsActive(Mem, e.ret[1])
            /\ p.at # e.ret[1].idx
            /\ \/ last'.op = "PopSelf" /\ last'.curr = Ptr(e.ret[1].idx, p.fld)
               \/ last'.op = "Del" /\ last'.refs = <<e.ret[1]>>)
           =>
            /\ Returned(CountOf(Mem', p)) /\ CountOf(Mem', p).ret = 0
            /\ Returned(EachOf(Mem', p)) /\ EachOf(Mem', p).ret = << >>
            /\ LET f == First(Ext(Mem'), p, TRUE)
               IN ~f.panic /\ f.ret.thing = ZeroThing
    ]_vars

\* C10: Del of a ref that is not active (NilRef, out of range, stale, or
\* deleted before) changes nothing: used, generations, the Things with every
\* List in them, activeThings and the tracker stay as they were.
C10_DelInactiveNoOp ==
    [][last'.op = "Del" /\ ~IsActive(Mem, last'.refs[1]) =>
        ArenaUnchanged /\ status' = "ok" /\ freed' = freed
    ]_vars

\* C10's case: a second Del of a freed ref, whose generation was bumped once
\* and whose slot holds a new Thing with an initialized List in it.
C10_Witness ==
    /\ last.op = "Del"
    /\ last.refs[1] \in freed
    /\ generations[last.refs[1].idx] = last.refs[1].generation + 1
    /\ used[last.refs[1].idx]
    /\ things[last.refs[1].idx].val # 0
    /\ \E p \in Heads(Mem) : p.at = last.refs[1].idx

\* The roles in the scenario once Append(B, C) is done (calls = 5, last is the
\* Append) and once Del(B) is done (calls = 6, last is the Del).
ScenarioOwner == Block(things, CHOOSE p \in ScenarioHeads : TRUE).owner
ScenarioC == CHOOSE c \in Minted(Mem) : IsActive(Mem, c) /\ c # ScenarioOwner

C6_NoPanic == logger => status = "ok"

\* C7: Append of refs none of which is active (NilRef, out of range, deleted)
\* returns normally, leaves the arena, every List and the tracker unchanged,
\* and logs a diagnostic when there is a logger.
C7_AppendInvalidNoOp ==
    [][(last'.op = "Append"
        /\ \A i \in 1..Len(last'.refs) : ~IsActive(Mem, last'.refs[i]))
       =>
        /\ status' = "ok"
        /\ ArenaUnchanged
        /\ logger => diag' # << >>
    ]_vars

\* C11: the logger setting does not influence behaviour. Whatever the logger
\* is, every call ends as it does with a logger set: the same way of ending,
\* the same return value, the same arena and lists; only diag may differ.
C11_LoggerNoInfluence ==
    [][last'.op # "SetLogger" =>
        LET a == Outcome(Mem, last', TRUE)
        IN /\ status' = StatusOf(a)
           /\ ret' = RetOf(last'.op, a)
           /\ Mem' = a.m
    ]_vars

\* The refs of the active Things in ascending index order.
ActiveSeq(m) ==
    LET idxs == SelectSeq([i \in 1..(maxThings - 1) |-> i], LAMBDA i : m.used[i])
    IN [k \in 1..Len(idxs) |-> Ref(idxs[k], m.generations[idxs[k]])]

\* C12: things.Each yields exactly the active Things, each once, in ascending
\* index order, each with an active ref, never NilRef or slot 0, and stops
\* as soon as the consumer returns false (after take yields).
C12_ThingsEachExact ==
    [][last'.op = "ThingsEach" =>
        LET all == ActiveSeq(Mem)
            n == IF last'.val < Len(all) THEN last'.val ELSE Len(all)
        IN /\ status' = "ok"
           /\ ret'.seq = SubSeq(all, 1, n)
           /\ \A i \in 1..Len(ret'.seq) :
                 IsActive(Mem, ret'.seq[i]) /\ ret'.seq[i] # NilRef
    ]_vars

\* C13: slot 0 is permanently nil and unused, and activeThings is the number
\* of used slots in 1..capacity.
C13_SlotZeroNil ==
    /\ ~used[0]
    /\ things[0] = ZeroThing
    /\ activeThings = Cardinality({i \in 1..(maxThings - 1) : used[i]})

\* Every List of the slots but p, and everything else in the arena, stays as
\* it was in this step.
OnlyBlockChanges(p) ==
    /\ UNCHANGED <<used, generations, activeThings, insideLists>>
    /\ \A i \in Slots :
         /\ things'[i].val = things[i].val
         /\ \A f \in Fields : Ptr(i, f) # p => things'[i].lists[f] = things[i].lists[f]

C15_PopFirstMovesHead ==
    [][\A p \in OrderlyHeads(Mem) :
        LET e == EachOf(Mem, p)
        IN (/\ Returned(e) /\ Len(e.ret) >= 2
            /\ Block(things, p).first = e.ret[1]
            /\ last'.op = "PopSelf" /\ last'.curr = Ptr(e.ret[1].idx, p.fld))
           =>
            /\ Block(things', p).first = e.ret[2]
            /\ First(Ext(Mem'), p, TRUE).ret.at = e.ret[2].idx
            /\ Returned(EachOf(Mem', p)) /\ EachOf(Mem', p).ret = Tail(e.ret)
            /\ Returned(CountOf(Mem', p)) /\ CountOf(Mem', p).ret = Len(e.ret) - 1
    ]_vars

\* C16: List well-formedness is an invariant of the states a client reaches
\* with Init, Append of live non-member refs, PopSelf on members and Del. For
\* every initialized non-empty list the members reached from first by next
\* form one cycle of live refs that returns to first, prev is the exact
\* inverse of next on that cycle, and the tail returned by Last is first.prev,
\* the last element Each yields.
C16_WellFormed ==
    \A p \in OrderlyHeads(Mem) :
        Block(things, p).first # NilRef =>
            LET e == EachOf(Mem, p)
                first == Block(things, p).first
                B(ref) == Block(things, Ptr(ref.idx, p.fld))
            IN /\ Returned(e) /\ Len(e.ret) >= 1 /\ e.ret[1] = first
               /\ \A i \in 1..Len(e.ret) :
                    /\ IsActive(Mem, e.ret[i])
                    /\ B(B(e.ret[i]).next).prev = e.ret[i]
                    /\ B(B(e.ret[i]).prev).next = e.ret[i]
               /\ Last(Ext(Mem), p, TRUE).ret.at = B(first).prev.idx
               /\ B(first).prev = e.ret[Len(e.ret)]

\* C17: List traversal always terminates. In every state a client reaches
\* with Init, Append, PopSelf and Del, Each on any list yields finitely many
\* pairs and returns, and Count returns a value no larger than the number of
\* live records.
C17_TraversalTerminates ==
    \A p \in OrderlyHeads(Mem) :
        /\ Returned(EachOf(Mem, p))
        /\ Returned(CountOf(Mem, p))
        /\ CountOf(Mem, p).ret <= Cardinality({i \in 1..(maxThings - 1) : used[i]})

\* C18: detachment precedes recycling. After a step in which Del(ref) freed
\* the slot of a live ref and bumped its generation, no List in any live
\* record holds ref as first, next or prev.
C18_NoBlockHoldsDeleted ==
    [][(last'.op = "Del" /\ IsActive(Mem, last'.refs[1]) /\ status' = "ok")
        => \A i \in 1..(maxThings - 1), f \in Fields :
              used'[i] =>
                  LET b == Block(things', Ptr(i, f))
                  IN /\ b.first # last'.refs[1]
                     /\ b.next # last'.refs[1]
                     /\ b.prev # last'.refs[1]
    ]_vars

\* C19: the membership tracker is exact. In every reachable state the
\* tracker's entry for a ref contains a List, once, if and only if the ref is
\* currently a member of a list through that List: Append adds the entry,
\* PopSelf removes it, Del removes the ref's whole entry.
MemberThrough(m, ref, q) ==
    /\ IsActive(m, ref) /\ q.at = ref.idx
    /\ Block(m.things, q).owner # NilRef
    /\ ~Block(m.things, q).isInitialized

C19_TrackerExact ==
    \A ref \in Minted(Mem), q \in {Ptr(i, f) : i \in 1..(maxThings - 1), f \in Fields} :
        LET t == Tracked(Mem, ref)
        IN /\ (q \in SeqRange(t)) <=> MemberThrough(Mem, ref, q)
           /\ Cardinality({k \in 1..Len(t) : t[k] = q}) <= 1

\* C20: an initialized list with no members is empty. Immediately after a
\* successful Init, and again after the removal (PopSelf or Del) of the only
\* member, Each yields no pairs and Count returns 0.
IsEmptyList(m, p) ==
    /\ Returned(EachOf(m, p)) /\ EachOf(m, p).ret = << >>
    /\ Returned(CountOf(m, p)) /\ CountOf(m, p).ret = 0

C20_EmptyListIsEmpty ==
    [][/\ (/\ last'.op = "Init"
           /\ ~Block(things, last'.curr).isInitialized
           /\ Block(things', last'.curr).isInitialized)
          => IsEmptyList(Mem', last'.curr)
       /\ \A p \in OrderlyHeads(Mem) :
            LET e == EachOf(Mem, p)
            IN (/\ Returned(e) /\ Len(e.ret) = 1 /\ IsActive(Mem, e.ret[1])
                /\ \/ last'.op = "PopSelf" /\ last'.curr = Ptr(e.ret[1].idx, p.fld)
                   \/ last'.op = "Del" /\ last'.refs = <<e.ret[1]>>)
               => IsEmptyList(Mem', p)
    ]_vars

\* The list of head p in arena m is well formed: Each returns its members,
\* which are distinct live refs starting at first, and prev is the inverse of
\* next on the cycle.
WellFormedList(m, p) ==
    LET e == EachOf(m, p)
        B(ref) == Block(m.things, Ptr(ref.idx, p.fld))
    IN /\ Block(m.things, p).first # NilRef
       /\ Returned(e) /\ Len(e.ret) >= 1 /\ e.ret[1] = Block(m.things, p).first
       /\ \A i, j \in 1..Len(e.ret) : i # j => e.ret[i] # e.ret[j]
       /\ \A i \in 1..Len(e.ret) :
            /\ IsActive(m, e.ret[i])
            /\ B(B(e.ret[i]).next).prev = e.ret[i]
            /\ B(B(e.ret[i]).prev).next = e.ret[i]

\* ref is yielded by no list through field f.
InNoList(m, ref, f) ==
    \A q \in Heads(m) : q.fld = f => ref \notin SeqRange(EachOf(m, q).ret)

\* s with r put in directly after position k.
InsertAfter(s, k, r) == SubSeq(s, 1, k) \o <<r>> \o SubSeq(s, k + 1, Len(s))

\* The effect the InsertNext(ref) step on the block of the k-th member of the
\* list of p is to have.
InsertedAfter(p, k, ref) ==
    LET e == EachOf(Mem, p)
        X == e.ret[k]
        succ == Block(things, Ptr(X.idx, p.fld)).next
        B(r) == Block(things', Ptr(r.idx, p.fld))
    IN /\ status' = "ok"
       /\ B(X).next = ref
       /\ B(ref).prev = X
       /\ B(ref).next = succ
       /\ B(succ).prev = ref
       /\ Returned(EachOf(Mem', p))
       /\ EachOf(Mem', p).ret = InsertAfter(e.ret, k, ref)
       /\ Returned(CountOf(Mem', p))
       /\ CountOf(Mem', p).ret = Len(e.ret) + 1
       /\ (k = Len(e.ret)) => B(Block(things', p).first).prev = ref

\* C21: InsertNext places the new ref directly after the node it is called
\* on. If X is a member of a well-formed list and ref is a live ref that is
\* in no list, then after InsertNext(ref) on X's List, X.next is ref, ref.prev
\* is X, ref.next is X's old successor whose prev is now ref, Each from the
\* owner yields ref directly after X with the other members in their previous
\* order, Count is one more, and when X was the tail first.prev is ref.
C21_InsertNextAfter ==
    [][\A p \in OrderlyHeads(Mem) :
        (/\ WellFormedList(Mem, p)
         /\ last'.op = "InsertNext"
         /\ last'.curr.fld = p.fld
         /\ IsActive(Mem, last'.refs[1])
         /\ InNoList(Mem, last'.refs[1], p.fld))
        => \A k \in 1..Len(EachOf(Mem, p).ret) :
              last'.curr.at = EachOf(Mem, p).ret[k].idx
                  => InsertedAfter(p, k, last'.refs[1])
    ]_vars

\* C22: InsertNext does nothing in its rejected cases. Called on an
\* uninitialized (zero-value) List, on an initialized list that is empty, or
\* with NilRef as the argument, it returns and leaves every List, the
\* membership tracker and the arena unchanged.
InsertNextRejected(m, curr, ref) ==
    \/ Block(m.things, curr) = ZeroList
    \/ Block(m.things, curr).isInitialized /\ Block(m.things, curr).first = NilRef
    \/ ref = NilRef

C22_InsertNextRejectedNoOp ==
    [][(last'.op = "InsertNext" /\ InsertNextRejected(Mem, last'.curr, last'.refs[1]))
        => status' = "ok" /\ ArenaUnchanged
    ]_vars

\* The members Each yields for the list of head p; none for an empty list.
MembersOf(m, p) ==
    IF Block(m.things, p).first = NilRef THEN << >> ELSE EachOf(m, p).ret

\* Every list of m is empty or well formed, and no ref is in two lists.
ListsDisjoint(m) ==
    /\ \A p \in Heads(m) : Block(m.things, p).first = NilRef \/ WellFormedList(m, p)
    /\ \A p, q \in Heads(m) :
         (p # q /\ p.fld = q.fld)
             => SeqRange(MembersOf(m, p)) \cap SeqRange(MembersOf(m, q)) = {}

\* C23: a List belongs to at most one list at a time. After any sequence of
\* Append calls, including Append of a ref that is already a member of the
\* same list or of another list through the same field, each ref is yielded
\* by Each of at most one list and at most once, and no list loses any of its
\* other members or its well-formed cycle.
C23_OneListAtATime ==
    [][(last'.op = "Append" /\ ListsDisjoint(Mem))
        => /\ status' = "ok"
           /\ ListsDisjoint(Mem')
           /\ \A q \in Heads(Mem) :
                SeqRange(MembersOf(Mem, q)) \ SeqRange(last'.refs)
                    \subseteq SeqRange(MembersOf(Mem', q))
    ]_vars

\* The List fields other than f are as they were, in every slot.
OtherFieldsUnchanged(f) ==
    \A i \in 0..(maxThings - 1), g \in Fields \ {f} :
        LET b == Block(things, Ptr(i, g))
            c == Block(things', Ptr(i, g))
        IN /\ c.first = b.first /\ c.next = b.next
           /\ c.prev = b.prev /\ c.owner = b.owner

\* ref is a member of a well-formed list through each of the two fields.
InBothLists(m, ref) ==
    \A f \in Fields :
        \E p \in HeadsIn(m, f) :
            WellFormedList(m, p) /\ ref \in SeqRange(MembersOf(m, p))

\* C24: List fields are independent. For a Thing type with two List fields,
\* Init, Append, InsertNext and PopSelf on a list of one field leave first,
\* next, prev and owner of every List of the other field unchanged, and
\* Del(ref) removes ref from both the lists it is a member of, one per field.
C24_FieldsIndependent ==
    [][/\ last'.op \in {"Init", "Append", "InsertNext", "PopSelf"}
          => OtherFieldsUnchanged(last'.curr.fld)
       /\ (last'.op = "Del" /\ InBothLists(Mem, last'.refs[1]))
          => /\ status' = "ok"
             /\ \A p \in Heads(Mem) :
                  WellFormedList(Mem, p)
                      => /\ Returned(EachOf(Mem', p))
                         /\ MembersOf(Mem', p)
                                = SeqWithout(MembersOf(Mem, p), last'.refs[1])
    ]_vars

====
